---- MODULE Spec2Model ----
(***************************************************************************)
(* Authentication gate of the loveinthecity single-page app: the root      *)
(* authenticated flag, the mounted guard, the two effects of AppContent,   *)
(* the route guards, the login form handler, the logout handler, the       *)
(* storage accessor over browser local storage and the messages page       *)
(* (conversation seeding, select, send, delete).                           *)
(*                                                                         *)
(* Spec and FairSpec are the authentication flow; MsgSpec is the messages  *)
(* page of a logged-in user; ReloginSpec is a user who sends messages,     *)
(* logs out and logs in again; FaultSpec and FaultFairSpec are the page    *)
(* load and the login form in a browser whose storage calls may throw.     *)
(*                                                                         *)
(* Execution is single threaded: a handler runs to completion (pc walks    *)
(* through its statements and no other action is enabled meanwhile), then  *)
(* the pending state changes are rendered, then the effects of that render *)
(* are flushed child first, and only then the next user event is taken.    *)
(***************************************************************************)
EXTENDS Integers, Sequences, FiniteSets, TLC

VARIABLES
    ls,                \* browser localStorage: key -> stored value (present keys only)
    cache,             \* StorageManager in-memory mirror: name -> data
    isAuthenticated,   \* App state, latest value set
    mounted,           \* AppContent state, latest value set
    history,           \* browser session history (hash routes)
    histIdx,           \* current entry of history
    rendered,          \* last committed render: the values its closures captured
    effects,           \* passive effects of the last render still to run
    pc,                \* position inside the running handler, "idle" when none
    phone, password,   \* LoginPage state
    error, loading,    \* LoginPage state
    userSession,       \* local of LoginPage.handleLogin
    conversations,     \* MessagesPage state
    selectedConversation, \* MessagesPage state
    messageInput,      \* MessagesPage state
    now,               \* the reading of the clock, Date.now()
    logoutRuns,        \* runs of handleLogout since the flag was last set true
    onLoginCalls,      \* onLogin() calls made by the last form submission
    event,             \* the last event from outside: page load or user input
    logins,            \* phones of the previous and of the latest successful login
    last               \* the step taken last

vars == <<ls, cache, isAuthenticated, mounted, history, histIdx, rendered,
          effects, pc, phone, password, error, loading, userSession,
          conversations, selectedConversation, messageInput, now, logoutRuns,
          onLoginCalls, event, logins, last>>

----------------------------------------------------------------------------
(* Bounds *)

MaxHistory == 3

\* Messages sent that the conversations list may hold.
MaxSent == 2

\* Ticks of the clock after the page load.
MaxClock == 1

----------------------------------------------------------------------------
(* Values *)

Prefix == "loveinthecity_"

TokenKey == <<"", "funloves_token">>

MockToken == "mock_jwt_token"

PKey(name) == <<Prefix, name>>

HasPrefix(k) == k[1] = Prefix

SessionTTL == 24 * 60 * 60 * 1000

Routes == {"/login", "/", "/messages", "/mine"}

PhoneInputs == {<<>>, <<" ">>, <<"7">>, <<" ", "9">>}

PasswordInputs == {<<>>, <<" ">>, <<"x">>}

UserIds == {"user_a", "user_b"}

NoPhone == <<>>

PhoneMsg == "Please enter your phone number"

PasswordMsg == "Please enter your password"

FailMsg == "Login failed. Please try again."

NoLogin == <<"-">>

NoSession == [id |-> "", phone |-> NoPhone, isAuthenticated |-> FALSE]

\* A text is a sequence of characters; a text fixed in the code is written as
\* one piece.
Text(s) == <<s>>

MessageInputs == {<<>>, <<" ">>, <<"o", "k", " ">>}

\* The clock reading at page load, far above the seeded message numbers.
Epoch == 1000

\* selectedConversation = null
NoConversation == [id |-> "", userId |-> "", userName |-> "", userImage |-> "",
                   lastMessage |-> <<>>, unreadCount |-> 0, messages |-> <<>>]

MockUser(id) == [id |-> id, name |-> "name_" \o id, image |-> "img_" \o id]

MOCK_USERS ==
    << MockUser("u1"), MockUser("support"), MockUser("u2"), MockUser("u3"),
       MockUser("u4"), MockUser("u5"), MockUser("u6") >>

RECURSIVE TrimStart(_)
TrimStart(s) ==
    IF s # <<>> /\ Head(s) = " " THEN TrimStart(Tail(s)) ELSE s

RECURSIVE TrimEnd(_)
TrimEnd(s) ==
    IF s # <<>> /\ s[Len(s)] = " " THEN TrimEnd(SubSeq(s, 1, Len(s) - 1)) ELSE s

Trim(s) == TrimEnd(TrimStart(s))

Blank(s) == Trim(s) = <<>>

----------------------------------------------------------------------------
(* StorageManager over localStorage *)

Without(f, ks) == [k \in DOMAIN f \ ks |-> f[k]]

With(f, k, v) == [x \in DOMAIN f \cup {k} |-> IF x = k THEN v ELSE f[x]]

Wrap(v, ttl) == [data |-> v, ttl |-> ttl]

SMHas(l, c, name) == name \in DOMAIN c \/ PKey(name) \in DOMAIN l

SMGet(l, c, name) == IF name \in DOMAIN c THEN c[name] ELSE l[PKey(name)].data

SMSetLs(l, name, v, ttl) == With(l, PKey(name), Wrap(v, ttl))

SMSetCache(c, name, v) == With(c, name, v)

SMRemoveLs(l, name) == Without(l, {PKey(name)})

SMRemoveCache(c, name) == Without(c, {name})

SMClearLs(l) == Without(l, {k \in DOMAIN l : HasPrefix(k)})

SMClearCache(c) == Without(c, DOMAIN c)

NamespacedKeys(l) == {k \in DOMAIN l : HasPrefix(k)}

----------------------------------------------------------------------------
(* Routing *)

url == history[histIdx]

Element(type, to) == [type |-> type, to |-> to]

NoElement == Element("none", "")

PageOf(loc) ==
    CASE loc = "/" -> "HomePage"
      [] loc = "/messages" -> "MessagesPage"
      [] loc = "/mine" -> "MinePage"

\* The guard of the protected routes inverted: an authenticated user is sent
\* to /login, which sends an authenticated user to /.
RouteElement_GuardInverted(loc, auth) ==
    IF loc = "/login"
    THEN IF auth THEN Element("Navigate", "/") ELSE Element("LoginPage", "")
    ELSE IF auth THEN Element("Navigate", "/login") ELSE Element(PageOf(loc), "")

\* The /login route without its guard: the login page whatever the flag.
RouteElement_LoginUnguarded(loc, auth) ==
    IF loc = "/login"
    THEN Element("LoginPage", "")
    ELSE IF auth THEN Element(PageOf(loc), "") ELSE Element("Navigate", "/login")

RouteElement(loc, auth) ==
    IF loc = "/login"
    THEN IF auth THEN Element("Navigate", "/") ELSE Element("LoginPage", "")
    ELSE IF auth THEN Element(PageOf(loc), "") ELSE Element("Navigate", "/login")

\* navigate() without { replace: true }: every navigation pushes an entry.
navigate_AlwaysPush(h, i, to, replace) ==
    [history |-> Append(SubSeq(h, 1, i), to), idx |-> i + 1]

\* navigate() called outside the router context: nothing happens.
navigate_OutsideRouter(h, i, to, replace) == [history |-> h, idx |-> i]

\* navigate(to, { replace }): the current history entry is replaced, or a new
\* entry is pushed after it (dropping the entries ahead of it).
navigate(h, i, to, replace) ==
    IF replace
    THEN [history |-> [h EXCEPT ![i] = to], idx |-> i]
    ELSE [history |-> Append(SubSeq(h, 1, i), to), idx |-> i + 1]

Snapshot == [auth |-> isAuthenticated, mounted |-> mounted, loc |-> url]

Captured == [auth |-> rendered.auth, mounted |-> rendered.mounted, loc |-> rendered.loc]

Settled == pc = "idle" /\ effects = <<>> /\ rendered.page # NoElement /\ Captured = Snapshot

Displayed == rendered.page.type

----------------------------------------------------------------------------
(* Initial state: a page load in a browser whose storage holds nothing of   *)
(* the app, or a session record that is not an authenticated one.           *)

InitialStorages ==
    { <<>>,
      [k \in {PKey("userSession")} |->
          Wrap([id |-> "user_a", phone |-> <<"7">>, isAuthenticated |-> FALSE], SessionTTL)] }

LoadState ==
    /\ cache = <<>>
    /\ isAuthenticated = FALSE
    /\ mounted = FALSE
    /\ rendered = [auth |-> FALSE, mounted |-> FALSE, loc |-> "", page |-> NoElement]
    /\ effects = <<>>
    /\ pc = "idle"
    /\ phone = <<>> /\ password = <<>> /\ error = "" /\ loading = FALSE
    /\ userSession = NoSession
    /\ conversations = <<>>
    /\ selectedConversation = NoConversation
    /\ messageInput = <<>>
    /\ now = Epoch
    /\ logoutRuns = 0
    /\ onLoginCalls = 0

Init ==
    /\ ls \in InitialStorages
    /\ \E r \in Routes : history = <<r>>
    /\ histIdx = 1
    /\ LoadState
    /\ event = [kind |-> "load", to |-> url]
    /\ logins = <<NoLogin, NoLogin>>
    /\ last = "load"

----------------------------------------------------------------------------
(* React: render and passive effects *)

LoginPageReset ==
    /\ phone' = <<>> /\ password' = <<>> /\ error' = "" /\ loading' = FALSE

MessagesPageReset ==
    /\ conversations' = <<>> /\ selectedConversation' = NoConversation
    /\ messageInput' = <<>>

EffectsOf(el, prev, first, depsChanged, locChanged) ==
    (IF el.type = "Navigate" /\ (el # prev \/ locChanged) THEN <<"navigate">> ELSE <<>>)
    \o (IF el.type = "MessagesPage" /\ prev.type # "MessagesPage"
        THEN <<"loadConversations">> ELSE <<>>)
    \o (IF first THEN <<"effect1">> ELSE <<>>)
    \o (IF first \/ depsChanged THEN <<"effect2">> ELSE <<>>)

\* One render pass of AppContent with the current state and location, commit
\* of its element, and scheduling of the effects whose dependencies changed.
Render ==
    /\ pc = "idle" /\ effects = <<>>
    /\ rendered.page = NoElement \/ Captured # Snapshot
    /\ LET el == RouteElement(url, isAuthenticated)
           first == rendered.page = NoElement
       IN /\ rendered' = [auth |-> isAuthenticated, mounted |-> mounted,
                          loc |-> url, page |-> el]
          /\ effects' = EffectsOf(el, rendered.page, first,
                                  Captured # Snapshot, rendered.loc # url)
          /\ IF el.type = rendered.page.type
             THEN UNCHANGED <<phone, password, error, loading, conversations,
                              selectedConversation, messageInput>>
             ELSE LoginPageReset /\ MessagesPageReset
    /\ last' = "render"
    /\ UNCHANGED <<ls, cache, isAuthenticated, mounted, history, histIdx, pc,
                   userSession, onLoginCalls,
                   event, logins, now, logoutRuns>>

\* <Navigate to=... replace />: navigates from its effect.
NavigateEffect ==
    /\ pc = "idle" /\ effects # <<>> /\ Head(effects) = "navigate"
    /\ effects' = Tail(effects)
    /\ history' = navigate(history, histIdx, rendered.page.to, TRUE).history
    /\ histIdx' = navigate(history, histIdx, rendered.page.to, TRUE).idx
    /\ last' = "navigate"
    /\ UNCHANGED <<ls, cache, isAuthenticated, mounted, rendered, pc, phone,
                   password, error, loading, userSession, conversations,
                   selectedConversation, onLoginCalls,
                   event, logins, messageInput, now, logoutRuns>>

\* Effect #1: initial authentication check on mount.
\* Effect #1 accepting any stored session record, authenticated or not.
Effect1Auth_AnySession(l, c) ==
    IF SMHas(l, c, "userSession") THEN TRUE ELSE isAuthenticated

Effect1Auth(l, c) ==
    IF SMHas(l, c, "userSession") /\ SMGet(l, c, "userSession").isAuthenticated
    THEN TRUE ELSE isAuthenticated

Effect1 ==
    /\ pc = "idle" /\ effects # <<>> /\ Head(effects) = "effect1"
    /\ effects' = Tail(effects)
    /\ isAuthenticated' = Effect1Auth(ls, cache)
    /\ mounted' = TRUE
    /\ last' = "effect1"
    /\ UNCHANGED <<ls, cache, history, histIdx, rendered, pc, phone, password,
                   error, loading, userSession, conversations,
                   selectedConversation, onLoginCalls,
                   event, logins, messageInput, now, logoutRuns>>

\* The catch block of Effect #1 without setMounted(true).
Effect1_catch_Unmounted ==
    /\ pc = "idle" /\ effects # <<>> /\ Head(effects) = "effect1"
    /\ effects' = Tail(effects)
    /\ last' = "effect1_failed"
    /\ UNCHANGED <<isAuthenticated, mounted>>
    /\ UNCHANGED <<ls, cache, history, histIdx, rendered, pc, phone, password,
                   error, loading, userSession, conversations,
                   selectedConversation, onLoginCalls,
                   event, logins, messageInput, now, logoutRuns>>

\* catch (error) of Effect #1: reading the session has thrown.
Effect1_catch ==
    /\ pc = "idle" /\ effects # <<>> /\ Head(effects) = "effect1"
    /\ effects' = Tail(effects)
    /\ mounted' = TRUE
    /\ last' = "effect1_failed"
    /\ UNCHANGED isAuthenticated
    /\ UNCHANGED <<ls, cache, history, histIdx, rendered, pc, phone, password,
                   error, loading, userSession, conversations,
                   selectedConversation, onLoginCalls,
                   event, logins, messageInput, now, logoutRuns>>

\* Effect #2: logout navigation.
\* Effect #2 without the mounted guard.
Effect2Redirects_NoGuard(m, auth) == ~auth

Effect2Redirects(m, auth) == m /\ ~auth

Effect2 ==
    /\ pc = "idle" /\ effects # <<>> /\ Head(effects) = "effect2"
    /\ effects' = Tail(effects)
    /\ IF Effect2Redirects(rendered.mounted, rendered.auth)
       THEN /\ history' = navigate(history, histIdx, "/login", TRUE).history
            /\ histIdx' = navigate(history, histIdx, "/login", TRUE).idx
            /\ last' = "effect2_redirect"
       ELSE /\ UNCHANGED <<history, histIdx>>
            /\ last' = "effect2_skip"
    /\ UNCHANGED <<ls, cache, isAuthenticated, mounted, rendered, pc, phone,
                   password, error, loading, userSession, conversations,
                   selectedConversation, onLoginCalls,
                   event, logins, messageInput, now, logoutRuns>>

----------------------------------------------------------------------------
(* MessagesPage: conversations are loaded, or seeded, when the page mounts *)

\* The seeding without .slice(0, 5).
SeedUsers_Uncapped ==
    SelectSeq(MOCK_USERS, LAMBDA u : u.id # "support")

SeedUsers ==
    LET others == SelectSeq(MOCK_USERS, LAMBDA u : u.id # "support")
    IN SubSeq(others, 1, IF Len(others) < 5 THEN Len(others) ELSE 5)

\* `msg_${n}`
MsgId(n) == <<"msg_", n>>

SeedMessages(user) ==
    << [id |-> MsgId(1), conversationId |-> "conv_" \o user.id,
        senderId |-> user.id,
        text |-> Text("Hi! How are you?"), read |-> TRUE],
       [id |-> MsgId(2), conversationId |-> "conv_" \o user.id,
        senderId |-> "me",
        text |-> Text("I'm doing great! How about you?"), read |-> TRUE],
       [id |-> MsgId(3), conversationId |-> "conv_" \o user.id,
        senderId |-> user.id,
        text |-> Text("Great! Would you like to meet up?"), read |-> FALSE] >>

defaultConversations ==
    [n \in 1..Len(SeedUsers) |->
        LET index == n - 1
        IN [id |-> "conv_" \o SeedUsers[n].id,
            userId |-> SeedUsers[n].id,
            userName |-> SeedUsers[n].name,
            userImage |-> SeedUsers[n].image,
            lastMessage |-> Text("Hi! How are you?"),
            unreadCount |-> IF index % 2 = 0 THEN index ELSE 0,
            messages |-> SeedMessages(SeedUsers[n])]]

loadConversations ==
    /\ pc = "idle" /\ effects # <<>> /\ Head(effects) = "loadConversations"
    /\ effects' = Tail(effects)
    /\ IF SMHas(ls, cache, "conversations") /\ Len(SMGet(ls, cache, "conversations")) > 0
       THEN /\ conversations' = SMGet(ls, cache, "conversations")
            /\ selectedConversation' = SMGet(ls, cache, "conversations")[1]
            /\ UNCHANGED <<ls, cache>>
       ELSE /\ ls' = SMSetLs(ls, "conversations", defaultConversations, 0)
            /\ cache' = SMSetCache(cache, "conversations", defaultConversations)
            /\ conversations' = defaultConversations
            /\ selectedConversation' = IF defaultConversations = <<>>
                                       THEN NoConversation
                                       ELSE defaultConversations[1]
    /\ last' = "loadConversations"
    /\ UNCHANGED <<isAuthenticated, mounted, history, histIdx, rendered, pc,
                   phone, password, error, loading, userSession, onLoginCalls,
                   event, logins, messageInput, now, logoutRuns>>

\* Messages of the list that were sent from the page (not seeded).
RECURSIVE SentMessages(_)
SentMessages(cs) ==
    IF cs = <<>> THEN 0
    ELSE Len(SelectSeq(Head(cs).messages, LAMBDA m : m.id[2] >= Epoch))
         + SentMessages(Tail(cs))

\* onChange of the message input, which exists while a conversation is
\* selected.
setMessageInput ==
    /\ Settled /\ Displayed = "MessagesPage"
    /\ selectedConversation # NoConversation
    /\ \E v \in MessageInputs \ {messageInput} : messageInput' = v
    /\ last' = "setMessageInput"
    /\ event' = [kind |-> "input", to |-> ""]
    /\ UNCHANGED <<ls, cache, conversations, selectedConversation>>
    /\ UNCHANGED <<isAuthenticated, mounted, history, histIdx, rendered, effects,
                   pc, phone, password, error, loading, userSession,
                   onLoginCalls, logins, now, logoutRuns>>

\* onClick of a conversation row: setSelectedConversation(conv).
selectConversation ==
    /\ Settled /\ Displayed = "MessagesPage"
    /\ \E n \in DOMAIN conversations :
         /\ conversations[n] # selectedConversation
         /\ selectedConversation' = conversations[n]
         /\ event' = [kind |-> "select", to |-> conversations[n].id]
    /\ last' = "selectConversation"
    /\ UNCHANGED <<ls, cache, conversations, messageInput>>
    /\ UNCHANGED <<isAuthenticated, mounted, history, histIdx, rendered, effects,
                   pc, phone, password, error, loading, userSession,
                   onLoginCalls, logins, now, logoutRuns>>

\* The guard of handleSendMessage without the trim.
CanSend_NoTrim(input, selected) ==
    input # <<>> /\ selected # NoConversation

\* if (!messageInput.trim() || !selectedConversation) return;
CanSend(input, selected) ==
    ~Blank(input) /\ selected # NoConversation

\* The new message carrying the trimmed input.
newMessage_Trimmed(selected, input, t) ==
    [id |-> MsgId(t), conversationId |-> selected.id, senderId |-> "me",
     text |-> Trim(input), read |-> TRUE]

newMessage(selected, input, t) ==
    [id |-> MsgId(t), conversationId |-> selected.id, senderId |-> "me",
     text |-> input, read |-> TRUE]

\* { ...conv, messages: [...conv.messages, newMessage], lastMessage: input }
WithMessage(conv, msg, input) ==
    [conv EXCEPT !.messages = Append(@, msg), !.lastMessage = input]

updatedConversations(cs, selected, input, t) ==
    [n \in DOMAIN cs |->
        IF cs[n].id = selected.id
        THEN WithMessage(cs[n], newMessage(selected, input, t), input)
        ELSE cs[n]]

\* handleSendMessage without its setSelectedConversation call.
handleSendMessage_SelectionStale ==
    /\ Settled /\ Displayed = "MessagesPage"
    /\ IF ~CanSend(messageInput, selectedConversation)
       THEN UNCHANGED <<ls, cache, conversations, messageInput>>
       ELSE /\ SentMessages(conversations) < MaxSent
            /\ LET updated == updatedConversations(conversations,
                                 selectedConversation, messageInput, now)
               IN /\ conversations' = updated
                  /\ ls' = SMSetLs(ls, "conversations", updated, 0)
                  /\ cache' = SMSetCache(cache, "conversations", updated)
            /\ messageInput' = <<>>
    /\ last' = "handleSendMessage"
    /\ event' = [kind |-> "send", to |-> selectedConversation.id]
    /\ UNCHANGED <<isAuthenticated, mounted, history, histIdx, rendered, effects,
                   pc, phone, password, error, loading, userSession,
                   onLoginCalls, logins, now, logoutRuns, selectedConversation>>

\* Enter in the message input or a click on the send button.
handleSendMessage ==
    /\ Settled /\ Displayed = "MessagesPage"
    /\ IF ~CanSend(messageInput, selectedConversation)
       THEN UNCHANGED <<ls, cache, conversations, selectedConversation,
                        messageInput>>
       ELSE /\ SentMessages(conversations) < MaxSent
            /\ LET updated == updatedConversations(conversations,
                                 selectedConversation, messageInput, now)
               IN /\ conversations' = updated
                  /\ ls' = SMSetLs(ls, "conversations", updated, 0)
                  /\ cache' = SMSetCache(cache, "conversations", updated)
            /\ selectedConversation' =
                 WithMessage(selectedConversation,
                             newMessage(selectedConversation, messageInput, now),
                             messageInput)
            /\ messageInput' = <<>>
    /\ last' = "handleSendMessage"
    /\ event' = [kind |-> "send", to |-> selectedConversation.id]
    /\ UNCHANGED <<isAuthenticated, mounted, history, histIdx, rendered, effects,
                   pc, phone, password, error, loading, userSession,
                   onLoginCalls, logins, now, logoutRuns>>

filtered(cs, conversationId) ==
    SelectSeq(cs, LAMBDA c : c.id # conversationId)

\* The selection left alone by handleDeleteConversation.
SelectedAfterDelete_Kept(cs, selected, conversationId) == selected

\* if (selectedConversation?.id === conversationId)
\*     setSelectedConversation(filtered[0] || null)
SelectedAfterDelete(cs, selected, conversationId) ==
    IF selected # NoConversation /\ selected.id = conversationId
    THEN IF filtered(cs, conversationId) = <<>>
         THEN NoConversation
         ELSE filtered(cs, conversationId)[1]
    ELSE selected

\* handleDeleteConversation without the storage write.
handleDeleteConversation_NotStored ==
    /\ Settled /\ Displayed = "MessagesPage"
    /\ \E id \in {conversations[n].id : n \in DOMAIN conversations} :
         /\ conversations' = filtered(conversations, id)
         /\ selectedConversation' =
              SelectedAfterDelete(conversations, selectedConversation, id)
         /\ event' = [kind |-> "delete", to |-> id]
    /\ last' = "handleDeleteConversation"
    /\ UNCHANGED <<ls, cache, messageInput>>
    /\ UNCHANGED <<isAuthenticated, mounted, history, histIdx, rendered, effects,
                   pc, phone, password, error, loading, userSession,
                   onLoginCalls, logins, now, logoutRuns>>

\* handleDeleteConversation(conversationId); the delete button of the chat
\* header passes the id of the selected conversation.
handleDeleteConversation ==
    /\ Settled /\ Displayed = "MessagesPage"
    /\ \E id \in {conversations[n].id : n \in DOMAIN conversations} :
         /\ conversations' = filtered(conversations, id)
         /\ ls' = SMSetLs(ls, "conversations", filtered(conversations, id), 0)
         /\ cache' = SMSetCache(cache, "conversations", filtered(conversations, id))
         /\ selectedConversation' =
              SelectedAfterDelete(conversations, selectedConversation, id)
         /\ event' = [kind |-> "delete", to |-> id]
    /\ last' = "handleDeleteConversation"
    /\ UNCHANGED messageInput
    /\ UNCHANGED <<isAuthenticated, mounted, history, histIdx, rendered, effects,
                   pc, phone, password, error, loading, userSession,
                   onLoginCalls, logins, now, logoutRuns>>

\* Date.now() advances.
Tick ==
    /\ now < Epoch + MaxClock
    /\ now' = now + 1
    /\ last' = "tick"
    /\ UNCHANGED <<ls, cache, isAuthenticated, mounted, history, histIdx,
                   rendered, effects, pc, phone, password, error, loading,
                   userSession, conversations, selectedConversation,
                   messageInput, logoutRuns, onLoginCalls, event, logins>>

----------------------------------------------------------------------------
(* LoginPage *)

SetPhone ==
    /\ Settled /\ Displayed = "LoginPage" /\ ~loading
    /\ \E v \in PhoneInputs : v # phone /\ phone' = v
    /\ last' = "setPhone"
    /\ event' = [kind |-> "type", to |-> ""]
    /\ UNCHANGED <<ls, cache, isAuthenticated, mounted, history, histIdx,
                   rendered, effects, pc, password, error, loading, userSession,
                   conversations, selectedConversation, onLoginCalls,
                   logins, messageInput, now, logoutRuns>>

SetPassword ==
    /\ Settled /\ Displayed = "LoginPage" /\ ~loading
    /\ \E v \in PasswordInputs : v # password /\ password' = v
    /\ last' = "setPassword"
    /\ event' = [kind |-> "type", to |-> ""]
    /\ UNCHANGED <<ls, cache, isAuthenticated, mounted, history, histIdx,
                   rendered, effects, pc, phone, error, loading, userSession,
                   conversations, selectedConversation, onLoginCalls,
                   logins, messageInput, now, logoutRuns>>

\* Validation that tests the fields for emptiness without trimming them.
Validate_NoTrim(ph, pw) ==
    IF ph = <<>> THEN PhoneMsg
    ELSE IF pw = <<>> THEN PasswordMsg
    ELSE ""

\* The outcome of the input validation of handleLogin: the message to show,
\* "" when both fields pass.
Validate(ph, pw) ==
    IF Blank(ph) THEN PhoneMsg
    ELSE IF Blank(pw) THEN PasswordMsg
    ELSE ""

\* The session record built from the trimmed phone instead of the input.
NewSession_Trimmed(id, ph) == [id |-> id, phone |-> Trim(ph), isAuthenticated |-> TRUE]

NewSession(id, ph) == [id |-> id, phone |-> ph, isAuthenticated |-> TRUE]

\* handleLogin, up to and including the creation of the session record.
handleLogin ==
    /\ Settled /\ Displayed = "LoginPage" /\ ~loading
    /\ onLoginCalls' = 0
    /\ IF Validate(phone, password) # ""
       THEN /\ error' = Validate(phone, password)
            /\ loading' = FALSE
            /\ pc' = "idle"
            /\ userSession' = NoSession
            /\ last' = "handleLogin_invalid"
       ELSE /\ error' = ""
            /\ loading' = TRUE
            /\ \E id \in UserIds :
                 userSession' = NewSession(id, phone)
            /\ pc' = "storeSession"
            /\ last' = "handleLogin_valid"
    /\ event' = [kind |-> "submit", to |-> ""]
    /\ UNCHANGED <<ls, cache, isAuthenticated, mounted, history, histIdx,
                   rendered, effects, phone, password, conversations,
                   selectedConversation,
                   logins, messageInput, now, logoutRuns>>

\* storage.set('userSession', userSession, sessionTTL)
handleLogin_storeSession ==
    /\ pc = "storeSession"
    /\ ls' = SMSetLs(ls, "userSession", userSession, SessionTTL)
    /\ cache' = SMSetCache(cache, "userSession", userSession)
    /\ pc' = "storeProfile"
    /\ last' = "storeSession"
    /\ UNCHANGED <<isAuthenticated, mounted, history, histIdx, rendered, effects,
                   phone, password, error, loading, userSession, conversations,
                   selectedConversation, onLoginCalls,
                   event, logins, messageInput, now, logoutRuns>>

\* The default profile with an avatar that is not derived from the phone.
DefaultProfile_Unseeded(session, ph) ==
    [id |-> session.id, name |-> "User", age |-> 25, avatarSeed |-> NoPhone,
     isVip |-> FALSE, following |-> 0, fans |-> 0, wallet |-> 0]

DefaultProfile(session, ph) ==
    [id |-> session.id, name |-> "User", age |-> 25, avatarSeed |-> ph,
     isVip |-> FALSE, following |-> 0, fans |-> 0, wallet |-> 0]

\* handleLogin writing the default profile whatever is stored.
handleLogin_storeProfile_Always ==
    /\ pc = "storeProfile"
    /\ ls' = SMSetLs(ls, "userProfile", DefaultProfile(userSession, phone), 0)
    /\ cache' = SMSetCache(cache, "userProfile", DefaultProfile(userSession, phone))
    /\ loading' = FALSE
    /\ pc' = "onLogin"
    /\ last' = "storeProfile"
    /\ UNCHANGED <<isAuthenticated, mounted, history, histIdx, rendered, effects,
                   phone, password, error, userSession, conversations,
                   selectedConversation, onLoginCalls,
                   event, logins, messageInput, now, logoutRuns>>

\* Create default profile if not exists, then setLoading(false).
handleLogin_storeProfile ==
    /\ pc = "storeProfile"
    /\ IF ~SMHas(ls, cache, "userProfile")
       THEN /\ ls' = SMSetLs(ls, "userProfile", DefaultProfile(userSession, phone), 0)
            /\ cache' = SMSetCache(cache, "userProfile", DefaultProfile(userSession, phone))
       ELSE UNCHANGED <<ls, cache>>
    /\ loading' = FALSE
    /\ pc' = "onLogin"
    /\ last' = "storeProfile"
    /\ UNCHANGED <<isAuthenticated, mounted, history, histIdx, rendered, effects,
                   phone, password, error, userSession, conversations,
                   selectedConversation, onLoginCalls,
                   event, logins, messageInput, now, logoutRuns>>

\* The session record App.handleLogin stores under 'userSession'. The
\* documentation names the key and the stored flag, not the other fields: the
\* record is the one the login form created for this login.
AppSession(l, c) == SMGet(l, c, "userSession")

\* App.handleLogin without the token write.
LoginToken_Missing(l) == l

LoginToken(l) == With(l, TokenKey, MockToken)

\* onLogin(): handleLogin of App.tsx.
App_handleLogin ==
    /\ pc = "onLogin"
    /\ onLoginCalls' = onLoginCalls + 1
    /\ logins' = <<logins[2], phone>>
    /\ ls' = SMSetLs(LoginToken(ls), "userSession",
                     AppSession(ls, cache), SessionTTL)
    /\ cache' = SMSetCache(cache, "userSession", AppSession(ls, cache))
    /\ isAuthenticated' = TRUE
    /\ logoutRuns' = 0
    /\ pc' = "idle"
    /\ last' = "onLogin"
    /\ UNCHANGED <<mounted, history, histIdx, rendered, effects, phone, password,
                   error, loading, userSession, conversations,
                   selectedConversation, messageInput, now,
                   event>>

\* The catch block without setLoading(false).
handleLogin_catch_StillLoading ==
    /\ pc \in {"storeSession", "storeProfile", "onLogin"}
    /\ error' = FailMsg
    /\ pc' = "idle"
    /\ last' = "handleLogin_failed"
    /\ UNCHANGED <<ls, cache, isAuthenticated, mounted, history, histIdx,
                   rendered, effects, phone, password, loading, userSession,
                   conversations, selectedConversation, onLoginCalls, event,
                   logins, messageInput, now, logoutRuns>>

\* catch (err): the statement of the try block that was about to run (the
\* session write, the profile read and write, or onLogin()) has thrown.
handleLogin_catch ==
    /\ pc \in {"storeSession", "storeProfile", "onLogin"}
    /\ error' = FailMsg
    /\ loading' = FALSE
    /\ pc' = "idle"
    /\ last' = "handleLogin_failed"
    /\ UNCHANGED <<ls, cache, isAuthenticated, mounted, history, histIdx,
                   rendered, effects, phone, password, userSession,
                   conversations, selectedConversation, onLoginCalls, event,
                   logins, messageInput, now, logoutRuns>>

----------------------------------------------------------------------------
(* handleLogout of AppContent, one step per statement *)

MinePage_onLogout ==
    /\ Settled /\ Displayed = "MinePage"
    /\ ls' = Without(ls, {TokenKey})
    /\ pc' = "removeSession"
    /\ last' = "logout_removeToken"
    /\ event' = [kind |-> "logout", to |-> ""]
    /\ logoutRuns' = IF logoutRuns < 2 THEN logoutRuns + 1 ELSE 2
    /\ UNCHANGED <<cache, isAuthenticated, mounted, history, histIdx, rendered,
                   effects, phone, password, error, loading, userSession,
                   conversations, selectedConversation, onLoginCalls,
                   logins, messageInput, now>>

\* storage.remove('userSession') left out of handleLogout.
handleLogout_removeSession_Skipped ==
    /\ pc = "removeSession"
    /\ pc' = "clearUserProfile"
    /\ last' = "logout_removeSession"
    /\ UNCHANGED <<ls, cache>>
    /\ UNCHANGED <<isAuthenticated, mounted, history, histIdx, rendered, effects,
                   phone, password, error, loading, userSession, conversations,
                   selectedConversation, onLoginCalls,
                   event, logins, messageInput, now, logoutRuns>>

handleLogout_removeSession ==
    /\ pc = "removeSession"
    /\ ls' = SMRemoveLs(ls, "userSession")
    /\ cache' = SMRemoveCache(cache, "userSession")
    /\ pc' = "clearUserProfile"
    /\ last' = "logout_removeSession"
    /\ UNCHANGED <<isAuthenticated, mounted, history, histIdx, rendered, effects,
                   phone, password, error, loading, userSession, conversations,
                   selectedConversation, onLoginCalls,
                   event, logins, messageInput, now, logoutRuns>>

handleLogout_clearUserProfile ==
    /\ pc = "clearUserProfile"
    /\ ls' = SMRemoveLs(ls, "userProfile")
    /\ cache' = SMRemoveCache(cache, "userProfile")
    /\ pc' = "clear"
    /\ last' = "logout_clearUserProfile"
    /\ UNCHANGED <<isAuthenticated, mounted, history, histIdx, rendered, effects,
                   phone, password, error, loading, userSession, conversations,
                   selectedConversation, onLoginCalls,
                   event, logins, messageInput, now, logoutRuns>>

\* storage.clear() left out of handleLogout.
LogoutClearLs_Skipped(l) == l

LogoutClearLs(l) == SMClearLs(l)

LogoutClearCache(c) == SMClearCache(c)

handleLogout_clear ==
    /\ pc = "clear"
    /\ ls' = LogoutClearLs(ls)
    /\ cache' = LogoutClearCache(cache)
    /\ pc' = "setUnauthenticated"
    /\ last' = "logout_clear"
    /\ UNCHANGED <<isAuthenticated, mounted, history, histIdx, rendered, effects,
                   phone, password, error, loading, userSession, conversations,
                   selectedConversation, onLoginCalls,
                   event, logins, messageInput, now, logoutRuns>>

\* handleLogout ending without setIsAuthenticated(false).
handleLogout_setIsAuthenticated_Kept ==
    /\ pc = "setUnauthenticated"
    /\ pc' = "idle"
    /\ last' = "logout_done"
    /\ UNCHANGED <<ls, cache, isAuthenticated, mounted, history, histIdx,
                   rendered, effects, phone, password, error, loading,
                   userSession, conversations, selectedConversation,
                   onLoginCalls, event, logins, messageInput, now, logoutRuns>>

handleLogout_setIsAuthenticated ==
    /\ pc = "setUnauthenticated"
    /\ isAuthenticated' = FALSE
    /\ pc' = "idle"
    /\ last' = "logout_done"
    /\ UNCHANGED <<ls, cache, mounted, history, histIdx, rendered, effects,
                   phone, password, error, loading, userSession, conversations,
                   selectedConversation, onLoginCalls,
                   event, logins, messageInput, now, logoutRuns>>

----------------------------------------------------------------------------
(* The user and the browser *)

\* A hash typed into the address bar, or a link followed: the browser adds a
\* history entry after the current one.
GoTo ==
    /\ Settled /\ histIdx < MaxHistory
    /\ \E r \in Routes \ {url} :
         /\ history' = Append(SubSeq(history, 1, histIdx), r)
         /\ histIdx' = histIdx + 1
         /\ event' = [kind |-> "goto", to |-> r]
    /\ last' = "goto"
    /\ UNCHANGED <<ls, cache, isAuthenticated, mounted, rendered, effects, pc,
                   phone, password, error, loading, userSession, conversations,
                   selectedConversation, onLoginCalls,
                   logins, messageInput, now, logoutRuns>>

BrowserBack ==
    /\ Settled /\ histIdx > 1
    /\ histIdx' = histIdx - 1
    /\ last' = "back"
    /\ event' = [kind |-> "back", to |-> history[histIdx - 1]]
    /\ UNCHANGED <<ls, cache, isAuthenticated, mounted, history, rendered,
                   effects, pc, phone, password, error, loading, userSession,
                   conversations, selectedConversation, onLoginCalls,
                   logins, messageInput, now, logoutRuns>>

\* Page reload: the storage and the history survive, everything in memory
\* starts over.
Refresh ==
    /\ Settled
    /\ cache' = <<>>
    /\ isAuthenticated' = FALSE
    /\ mounted' = FALSE
    /\ rendered' = [auth |-> FALSE, mounted |-> FALSE, loc |-> "", page |-> NoElement]
    /\ effects' = <<>>
    /\ pc' = "idle"
    /\ phone' = <<>> /\ password' = <<>> /\ error' = "" /\ loading' = FALSE
    /\ userSession' = NoSession
    /\ conversations' = <<>>
    /\ selectedConversation' = NoConversation
    /\ messageInput' = <<>>
    /\ logoutRuns' = 0
    /\ onLoginCalls' = 0
    /\ last' = "load"
    /\ event' = [kind |-> "load", to |-> url]
    /\ UNCHANGED <<ls, history, histIdx,
                   logins, now>>

----------------------------------------------------------------------------

Reacting ==
    \/ Render
    \/ NavigateEffect
    \/ loadConversations
    \/ Effect1
    \/ Effect2

Handling ==
    \/ handleLogin_storeSession
    \/ handleLogin_storeProfile
    \/ App_handleLogin
    \/ handleLogout_removeSession
    \/ handleLogout_clearUserProfile
    \/ handleLogout_clear
    \/ handleLogout_setIsAuthenticated

Next ==
    \/ Render
    \/ NavigateEffect
    \/ loadConversations
    \/ Effect1
    \/ Effect2
    \/ SetPhone
    \/ SetPassword
    \/ handleLogin
    \/ handleLogin_storeSession
    \/ handleLogin_storeProfile
    \/ App_handleLogin
    \/ MinePage_onLogout
    \/ handleLogout_removeSession
    \/ handleLogout_clearUserProfile
    \/ handleLogout_clear
    \/ handleLogout_setIsAuthenticated
    \/ GoTo
    \/ BrowserBack
    \/ Refresh

\* The storage a login leaves behind.
SignedInStorage ==
    LET session == NewSession("user_a", <<"7">>)
    IN With(With(With(<<>>, TokenKey, MockToken),
                 PKey("userSession"), Wrap(session, SessionTTL)),
            PKey("userProfile"), Wrap(DefaultProfile(session, <<"7">>), 0))

\* A page load in a browser that holds the session of an earlier login.
MsgInit ==
    /\ ls = SignedInStorage
    /\ \E r \in {"/", "/messages"} : history = <<r>>
    /\ histIdx = 1
    /\ LoadState
    /\ event = [kind |-> "load", to |-> url]
    /\ logins = <<NoLogin, NoLogin>>
    /\ last = "load"

\* Moves between the home page and the messages page.
OpenPage ==
    /\ GoTo
    /\ url' \in {"/", "/messages"}

\* The messages page of a logged-in user: page load, moves to and from the
\* page, and the operations of the page.
MsgNext ==
    \/ Render
    \/ NavigateEffect
    \/ Effect1
    \/ Effect2
    \/ loadConversations
    \/ OpenPage
    \/ BrowserBack
    \/ Tick
    \/ setMessageInput
    \/ selectConversation
    \/ handleSendMessage
    \/ handleDeleteConversation

MsgSpec == MsgInit /\ [][MsgNext]_vars

\* A logged-in user who sends messages, logs out and logs in again.
ReloginNext ==
    \/ Render
    \/ NavigateEffect
    \/ Effect1
    \/ Effect2
    \/ loadConversations
    \/ GoTo
    \/ BrowserBack
    \/ setMessageInput
    \/ handleSendMessage
    \/ MinePage_onLogout
    \/ handleLogout_removeSession
    \/ handleLogout_clearUserProfile
    \/ handleLogout_clear
    \/ handleLogout_setIsAuthenticated
    \/ SetPhone
    \/ SetPassword
    \/ handleLogin
    \/ handleLogin_storeSession
    \/ handleLogin_storeProfile
    \/ App_handleLogin

ReloginSpec == MsgInit /\ [][ReloginNext]_vars

\* The login page in a browser whose storage calls may throw: page loads, the
\* login form and the reactions to them.
FaultNext ==
    \/ Render
    \/ NavigateEffect
    \/ Effect1
    \/ Effect2
    \/ SetPhone
    \/ SetPassword
    \/ handleLogin
    \/ handleLogin_storeSession
    \/ handleLogin_storeProfile
    \/ App_handleLogin
    \/ handleLogin_catch
    \/ Effect1_catch
    \/ Refresh

FaultSpec == Init /\ [][FaultNext]_vars

FaultReacting ==
    \/ Render
    \/ NavigateEffect
    \/ Effect1
    \/ Effect1_catch
    \/ Effect2

\* Every pending render and effect is eventually run.
FaultFairSpec == FaultSpec /\ WF_vars(FaultReacting)

Spec == Init /\ [][Next]_vars

\* The handler that started finishes and React renders and flushes effects
\* without waiting for the user.
FairSpec == Spec /\ WF_vars(Reacting) /\ WF_vars(Handling)

----------------------------------------------------------------------------
(* Properties *)

ValidSessionStored ==
    /\ PKey("userSession") \in DOMAIN ls
    /\ ls[PKey("userSession")].data.isAuthenticated

LoginShown == url = "/login" /\ Displayed = "LoginPage"

\* C1: when handleLogout has completed, no key with the 'loveinthecity_'
\* prefix is left in localStorage, 'funloves_token' is absent, and reading
\* 'userSession' through the storage accessor finds no session.
C1_LogoutClearsStorage ==
    last = "logout_done" =>
        /\ NamespacedKeys(ls) = {}
        /\ TokenKey \notin DOMAIN ls
        /\ ~SMHas(ls, cache, "userSession")

\* A logout has completed in a browser that held conversations besides the
\* session and the profile: the messages page had been visited since login.
C1_Witness ==
    /\ last = "logout_done"
    /\ ~isAuthenticated /\ rendered.auth
    /\ Displayed = "MinePage"
    /\ \E i \in 1..Len(history) : history[i] = "/messages"

\* C2: once handleLogout has switched the authenticated flag from true to
\* false, the app reaches, without any user input, the state where the URL is
\* /login and the LoginPage is displayed.
C2_LogoutRedirects ==
    (last = "logout_done") ~> (Settled /\ LoginShown)

\* The login page is shown, settled, after a logout that followed a login.
C2_Witness ==
    /\ Settled /\ LoginShown
    /\ event.kind = "logout"
    /\ onLoginCalls = 1

\* C3: Effect #2 redirects to /login only from a render that saw mounted =
\* true, and never while an authenticated session is in storage; so the mount
\* sequence of a page load with a valid session has no redirect by Effect #2.
C3_MountedGuard ==
    last = "effect2_redirect" =>
        /\ rendered.mounted /\ mounted
        /\ ~ValidSessionStored

\* Effect #2 has run in the first render of a page load with a valid session
\* (mounted still false, flag still false in its closure) and did not redirect.
C3_Witness ==
    /\ last = "effect2_skip"
    /\ ~rendered.mounted /\ ~rendered.auth
    /\ ValidSessionStored
    /\ event.kind = "load"

\* C4: after a page load with a valid session stored, on a protected route,
\* and until the user does something, the login page is never displayed and
\* once the mount sequence has settled the URL is the route that was loaded.
C4_RefreshKeepsRoute ==
    (event.kind = "load" /\ event.to # "/login" /\ ValidSessionStored) =>
        /\ Displayed # "LoginPage"
        /\ Settled => url = event.to

ProtectedPages == {"HomePage", "MessagesPage", "MinePage"}

C6_PageAgreesWithFlag ==
    Settled =>
        /\ ~isAuthenticated => (LoginShown /\ Displayed \notin ProtectedPages)
        /\ isAuthenticated => (Displayed \in ProtectedPages /\ Displayed # "LoginPage"
                               /\ url # "/login")
        /\ (isAuthenticated /\ event = [kind |-> "goto", to |-> "/login"]) => url = "/"

\* The logged-in user has entered /login by hand and the app has settled on /.
C6_Witness ==
    /\ Settled /\ isAuthenticated
    /\ event = [kind |-> "goto", to |-> "/login"]
    /\ url = "/" /\ Displayed = "HomePage"

StoredSession == ls[PKey("userSession")].data

StoredProfile == ls[PKey("userProfile")].data

HomeShown == url = "/" /\ Displayed = "HomePage"

\* C7: a submission of the login form with a blank phone sets the phone
\* message, one with a non-blank phone and a blank password sets the password
\* message; either way the handler ends there: storage and cache unchanged,
\* onLogin not called, flag unchanged, loading false.
C7_BlankFieldsRejected ==
    [][ (last' \in {"handleLogin_invalid", "handleLogin_valid"}
           /\ (Blank(phone) \/ Blank(password)))
        => /\ error' = (IF Blank(phone) THEN PhoneMsg ELSE PasswordMsg)
           /\ ls' = ls /\ cache' = cache
           /\ onLoginCalls' = 0
           /\ isAuthenticated' = isAuthenticated
           /\ loading' = FALSE
           /\ pc' = "idle" ]_vars

\* The form was submitted with a phone of one space and a blank password: the
\* phone message is shown.
C7_Witness ==
    /\ last = "handleLogin_invalid"
    /\ phone = <<" ">> /\ Blank(password)
    /\ error = PhoneMsg /\ ~loading
    /\ onLoginCalls = 0

\* C8: when a submission with non-blank phone and password calls onLogin,
\* storage already holds a userSession with the phone of the form and
\* isAuthenticated = true while the authenticated flag is still false; the
\* call is the only one of that submission, and every such submission gets to
\* it.
C8_SessionBeforeOnLogin ==
    /\ [][ last' = "onLogin"
           => /\ PKey("userSession") \in DOMAIN ls
              /\ StoredSession.phone = phone
              /\ StoredSession.isAuthenticated
              /\ SMGet(ls, cache, "userSession") = StoredSession
              /\ ~isAuthenticated /\ isAuthenticated'
              /\ onLoginCalls = 0 /\ onLoginCalls' = 1 ]_vars
    /\ []((event.kind = "submit" /\ pc = "idle" /\ last # "handleLogin_invalid")
             => onLoginCalls = 1)
    /\ (last = "handleLogin_valid") ~> (last = "onLogin")

\* onLogin has just been called, once, for a phone typed with a leading space.
C8_Witness ==
    /\ last = "onLogin"
    /\ onLoginCalls = 1
    /\ phone = <<" ", "9">>
    /\ StoredSession.phone = <<" ", "9">>
    /\ isAuthenticated

\* C9: a successful login is followed by the settled state with the home page
\* at / and the flag true, where the namespaced keys are exactly userSession
\* and userProfile and 'funloves_token' holds the mock token.
C9_LoginLandsHome ==
    /\ []((event.kind = "submit" /\ Settled /\ isAuthenticated)
             => /\ HomeShown
                /\ NamespacedKeys(ls) = {PKey("userSession"), PKey("userProfile")}
                /\ TokenKey \in DOMAIN ls
                /\ ls[TokenKey] = MockToken)
    /\ (last = "onLogin") ~> (Settled /\ isAuthenticated /\ HomeShown)

\* The first login of this browser has settled on the home page.
C9_Witness ==
    /\ event.kind = "submit" /\ Settled /\ isAuthenticated /\ HomeShown
    /\ logins[1] = NoLogin
    /\ NamespacedKeys(ls) = {PKey("userSession"), PKey("userProfile")}

\* C10: whatever logins and logouts came before, a login settles on the home
\* page with the stored session and profile being those of this login: the
\* session carries the phone just entered, the profile carries the id of that
\* session and the avatar of that phone; and a logout always gets back to
\* the login form, a valid submission always to the home page.
C10_CycleRepeats ==
    /\ []((event.kind = "submit" /\ Settled /\ isAuthenticated)
             => /\ HomeShown
                /\ StoredSession = userSession
                /\ StoredSession.phone = logins[2]
                /\ StoredProfile.id = StoredSession.id
                /\ StoredProfile.avatarSeed = logins[2])
    /\ (last = "logout_done") ~> (Settled /\ LoginShown /\ phone = <<>> /\ ~loading)
    /\ (last = "handleLogin_valid") ~> (Settled /\ isAuthenticated /\ HomeShown)

\* A second login, with another phone than the login before it, has settled
\* on the home page.
C10_Witness ==
    /\ event.kind = "submit" /\ Settled /\ isAuthenticated /\ HomeShown
    /\ logins[1] # NoLogin /\ logins[1] # logins[2]
    /\ StoredSession.phone = logins[2]

\* C11: there is no redirect loop: from every state in which a render, an
\* effect or a handler step is pending, the app reaches a settled state, so a
\* single event is followed by finitely many navigations.
C11_NoRedirectLoop ==
    (~Settled) ~> Settled

\* A reload of /mine with a valid session has settled on / after its two
\* redirects (to /login by the route guard, to / by the /login guard).
C11_Witness ==
    /\ Settled
    /\ event = [kind |-> "load", to |-> "/mine"]
    /\ isAuthenticated
    /\ url = "/"

C13_LogoutOnce ==
    /\ [](logoutRuns <= 1)
    /\ [][ (pc = "idle" /\ pc' = "removeSession")
           => (logoutRuns = 0 /\ isAuthenticated /\ Displayed = "MinePage") ]_vars
    /\ []((logoutRuns = 1 /\ pc = "idle" /\ rendered.auth = isAuthenticated)
             => Displayed # "MinePage")

\* The logout has run once and the app has settled on the login page.
C13_Witness ==
    /\ logoutRuns = 1
    /\ Settled /\ LoginShown
    /\ event.kind = "logout"

\* C14: the logout flow is ordered: the session is removed before the profile
\* is cleared, both before the whole namespace is cleared, the flag is set to
\* false only on cleared storage, and the redirects that follow the logout
\* fire on cleared storage with the flag false.
C14_LogoutOrder ==
    /\ [][ last' = "logout_clearUserProfile"
           => ~SMHas(ls, cache, "userSession") ]_vars
    /\ [][ last' = "logout_clear"
           => (~SMHas(ls, cache, "userSession") /\ ~SMHas(ls, cache, "userProfile")) ]_vars
    /\ [][ last' = "logout_done"
           => (NamespacedKeys(ls) = {} /\ cache = <<>> /\ isAuthenticated
               /\ ~isAuthenticated') ]_vars
    /\ []((event.kind = "logout" /\ last \in {"navigate", "effect2_redirect"})
             => (NamespacedKeys(ls) = {} /\ cache = <<>> /\ TokenKey \notin DOMAIN ls
                 /\ ~isAuthenticated /\ url = "/login"))

\* Effect #2 has just redirected after a logout, on cleared storage.
C14_Witness ==
    /\ event.kind = "logout"
    /\ last = "effect2_redirect"
    /\ NamespacedKeys(ls) = {}
    /\ url = "/login"

\* C15: when a statement of the try block of handleLogin throws, the failure
\* message is shown, loading is false and the handler has ended; loading is
\* never left true once the handler has ended.
C15_LoginFailureCaught ==
    /\ [][ last' = "handleLogin_failed"
           => (error' = FailMsg /\ ~loading' /\ pc' = "idle"
               /\ isAuthenticated' = isAuthenticated) ]_vars
    /\ [](pc = "idle" => ~loading)
    /\ []((last = "handleLogin_failed") => (error = FailMsg /\ Displayed = "LoginPage"))

\* onLogin() has thrown: session and profile are written, the form shows the
\* failure message and the user is not logged in.
C15_Witness ==
    /\ last = "handleLogin_failed"
    /\ error = FailMsg /\ ~loading
    /\ SMHas(ls, cache, "userProfile")
    /\ ~isAuthenticated
    /\ onLoginCalls = 0

StoredConversations == SMGet(ls, cache, "conversations")

ConversationsLoaded ==
    /\ Displayed = "MessagesPage"
    /\ \A i \in DOMAIN effects : effects[i] # "loadConversations"

\* C16: once the messages page has loaded its conversations, and after every
\* send and delete, the list stored under 'conversations' (in localStorage and
\* as the accessor returns it) equals the conversations list in memory.
C16_StoredEqualsMemory ==
    ConversationsLoaded
        => /\ SMHas(ls, cache, "conversations")
           /\ PKey("conversations") \in DOMAIN ls
           /\ ls[PKey("conversations")].data = conversations
           /\ StoredConversations = conversations

\* A conversation was deleted after a message was sent in another one, and
\* the stored list is the shortened list in memory.
C16_Witness ==
    /\ last = "handleDeleteConversation"
    /\ Len(conversations) \in 1..4
    /\ SentMessages(conversations) > 0
    /\ ls[PKey("conversations")].data = conversations

\* C17: a send with a non-blank input and a selected conversation appends one
\* message (sender 'me', read, the input as text, the id of the selected
\* conversation) at the end of that conversation, sets its lastMessage to the
\* input, changes nothing else in the list and clears the input.
C17_SendAppends ==
    [][ (last' = "handleSendMessage" /\ Trim(messageInput) # <<>>
         /\ selectedConversation # NoConversation)
        => /\ Len(conversations') = Len(conversations)
           /\ Cardinality({n \in DOMAIN conversations :
                            conversations[n].id = selectedConversation.id}) = 1
           /\ \A n \in DOMAIN conversations :
                IF conversations[n].id = selectedConversation.id
                THEN /\ Len(conversations'[n].messages)
                          = Len(conversations[n].messages) + 1
                     /\ SubSeq(conversations'[n].messages, 1,
                               Len(conversations[n].messages))
                          = conversations[n].messages
                     /\ LET m == conversations'[n].messages[
                                     Len(conversations'[n].messages)]
                        IN /\ m.senderId = "me" /\ m.read
                           /\ m.text = messageInput
                           /\ m.conversationId = selectedConversation.id
                     /\ conversations'[n].lastMessage = messageInput
                     /\ conversations'[n].unreadCount = conversations[n].unreadCount
                     /\ conversations'[n].id = conversations[n].id
                     /\ conversations'[n].userId = conversations[n].userId
                     /\ conversations'[n].userName = conversations[n].userName
                ELSE conversations'[n] = conversations[n]
           /\ messageInput' = <<>> ]_vars

\* A message whose text ends with a space has just been sent in the third
\* conversation of the list, which has an unread count.
C17_Witness ==
    /\ last = "handleSendMessage"
    /\ Len(conversations) >= 3
    /\ Len(conversations[3].messages) = 4
    /\ conversations[3].messages[4].text = <<"o", "k", " ">>
    /\ conversations[3].lastMessage = <<"o", "k", " ">>
    /\ conversations[3].unreadCount = 2
    /\ messageInput = <<>>

\* C18: a send with an empty or whitespace input, or with no conversation
\* selected, changes neither the conversations list, nor the stored list, nor
\* the selection, nor the input.
C18_BlankSendNoOp ==
    [][ (last' = "handleSendMessage"
         /\ (Trim(messageInput) = <<>> \/ selectedConversation = NoConversation))
        => UNCHANGED <<conversations, ls, cache, selectedConversation,
                       messageInput>> ]_vars

\* Enter was pressed on an input holding one space.
C18_Witness ==
    /\ last = "handleSendMessage"
    /\ messageInput = <<" ">>
    /\ selectedConversation # NoConversation
    /\ SentMessages(conversations) = 0

\* C19: a delete removes the conversation with the given id and keeps the
\* others in order; a deleted selection is replaced by the first remaining
\* conversation, or by null when none remains; another selection stays.
C19_DeleteRemovesOne ==
    [][ last' = "handleDeleteConversation"
        => LET id == event'.to
               k == CHOOSE n \in DOMAIN conversations : conversations[n].id = id
           IN /\ Len(conversations') = Len(conversations) - 1
              /\ \A n \in DOMAIN conversations' :
                   conversations'[n] = IF n < k THEN conversations[n]
                                       ELSE conversations[n + 1]
              /\ \A n \in DOMAIN conversations' : conversations'[n].id # id
              /\ IF selectedConversation.id = id
                 THEN selectedConversation' =
                        IF conversations' = <<>> THEN NoConversation
                        ELSE conversations'[1]
                 ELSE selectedConversation' = selectedConversation ]_vars

\* The only conversation left, which was selected, has been deleted.
C19_Witness ==
    /\ last = "handleDeleteConversation"
    /\ conversations = <<>>
    /\ selectedConversation = NoConversation
    /\ StoredConversations = <<>>

\* C20: mounting the page with a non-empty stored list takes that list, selects
\* its first entry and writes nothing; with nothing stored or an empty stored
\* list it seeds at most 5 conversations of mock users other than 'support',
\* each of 3 messages, stores them and selects the first.
C20_LoadOrSeed ==
    [][ last' = "loadConversations"
        => IF SMHas(ls, cache, "conversations") /\ StoredConversations # <<>>
           THEN /\ conversations' = StoredConversations
                /\ selectedConversation' = StoredConversations[1]
                /\ ls' = ls /\ cache' = cache
           ELSE /\ Len(conversations')
                     = LET k == Cardinality({n \in DOMAIN MOCK_USERS :
                                               MOCK_USERS[n].id # "support"})
                       IN IF k < 5 THEN k ELSE 5
                /\ \A n \in DOMAIN conversations' :
                     /\ conversations'[n].userId # "support"
                     /\ \E u \in DOMAIN MOCK_USERS :
                          MOCK_USERS[u].id = conversations'[n].userId
                     /\ Len(conversations'[n].messages) = 3
                     /\ \A m \in DOMAIN conversations'[n].messages :
                          conversations'[n].messages[m].id[2] = m
                /\ ls'[PKey("conversations")].data = conversations'
                /\ selectedConversation' = conversations'[1] ]_vars

\* The page was mounted again after a send: the stored list with the sent
\* message was taken, not the defaults.
C20_Witness ==
    /\ last = "loadConversations"
    /\ SentMessages(conversations) > 0
    /\ selectedConversation = conversations[1]
    /\ StoredConversations = conversations

\* C21: the logout deletes the stored conversations: none is stored from the
\* namespace clear of the logout until the messages page loads again; only
\* that load puts conversations into empty storage, and what it puts and
\* shows there are the default conversations, without any sent message.
C21_LogoutDropsConversations ==
    /\ []((event.kind = "logout" /\ pc \in {"setUnauthenticated", "idle"})
             => ~SMHas(ls, cache, "conversations"))
    /\ [][ last' = "onLogin" => ~SMHas(ls', cache', "conversations") ]_vars
    /\ [][ (~SMHas(ls, cache, "conversations") /\ SMHas(ls', cache', "conversations"))
           => /\ last' = "loadConversations"
              /\ conversations' = defaultConversations
              /\ SentMessages(conversations') = 0
              /\ ls'[PKey("conversations")].data = defaultConversations ]_vars

\* After a logout and a new login the messages page has loaded the defaults.
C21_Witness ==
    /\ last = "loadConversations"
    /\ logins[2] # NoLogin /\ logoutRuns = 0
    /\ isAuthenticated
    /\ conversations = defaultConversations
    /\ StoredConversations = defaultConversations

\* C22: once the messages page has loaded, the selection is null only when
\* the conversations list is empty; otherwise the list holds a conversation
\* with the selected id whose messages, lastMessage and userName are those
\* of the selection.
C22_SelectionInList ==
    ConversationsLoaded
        => IF selectedConversation = NoConversation
           THEN conversations = <<>>
           ELSE \E n \in DOMAIN conversations :
                  /\ conversations[n].id = selectedConversation.id
                  /\ conversations[n].messages = selectedConversation.messages
                  /\ conversations[n].lastMessage = selectedConversation.lastMessage
                  /\ conversations[n].userName = selectedConversation.userName

\* A message was sent in the second conversation of the list after it was
\* selected; selection and list entry both carry it.
C22_Witness ==
    /\ last = "handleSendMessage"
    /\ Len(conversations) >= 2
    /\ selectedConversation.id = conversations[2].id
    /\ Len(selectedConversation.messages) = 4
    /\ conversations[2].messages = selectedConversation.messages

\* C23: within every conversation of the list the message ids are pairwise
\* distinct.
C23_MessageIdsDistinct ==
    \A n \in DOMAIN conversations :
       \A i, j \in DOMAIN conversations[n].messages :
          i # j => conversations[n].messages[i].id # conversations[n].messages[j].id

\* C24: a login leaves a userProfile that is already stored unchanged, while
\* it overwrites the userSession; it creates the default profile when none is
\* stored.
C24_ProfileCreatedOnce ==
    /\ [][ (last' \in {"storeSession", "storeProfile", "onLogin"}
            /\ SMHas(ls, cache, "userProfile"))
           => /\ SMHas(ls', cache', "userProfile")
              /\ SMGet(ls', cache', "userProfile") = SMGet(ls, cache, "userProfile")
              /\ ls'[PKey("userProfile")] = ls[PKey("userProfile")] ]_vars
    /\ [][ (last' = "storeProfile" /\ ~SMHas(ls, cache, "userProfile"))
           => /\ StoredProfile' = [id |-> userSession.id, name |-> "User",
                                   age |-> 25, avatarSeed |-> phone,
                                   isVip |-> FALSE, following |-> 0,
                                   fans |-> 0, wallet |-> 0]
              /\ SMGet(ls', cache', "userProfile") = StoredProfile' ]_vars
    /\ [][ last' = "storeSession" => StoredSession' = userSession ]_vars

\* A login has succeeded with the phone 9 while the stored profile is the one
\* an earlier, failed attempt created for the phone 7.
C24_Witness ==
    /\ last = "onLogin"
    /\ isAuthenticated
    /\ StoredSession.phone = <<" ", "9">>
    /\ StoredProfile.avatarSeed = <<"7">>

\* C25: after a successful login the id of the stored userProfile is the id of
\* the stored userSession.
C25_ProfileIdIsSessionId ==
    last = "onLogin" => StoredProfile.id = StoredSession.id

\* C27: the mount-time session check ends with mounted true, also when the
\* read of the session throws; the flag then stays false and the app settles
\* on the login page; mounted returns to false only with a page load.
C27_MountedAlwaysSet ==
    /\ (~mounted) ~> mounted
    /\ [][ last' \in {"effect1", "effect1_failed"} => mounted' ]_vars
    /\ [][ last' = "effect1_failed"
           => (~isAuthenticated /\ ~isAuthenticated') ]_vars
    /\ (last = "effect1_failed")
          ~> (Settled /\ LoginShown /\ mounted /\ ~isAuthenticated)
    /\ [][ (mounted /\ ~mounted') => last' = "load" ]_vars

\* The session read threw although a valid session is stored; the app has
\* settled on the login page with mounted true.
C27_Witness ==
    /\ Settled /\ LoginShown
    /\ mounted /\ ~isAuthenticated
    /\ ValidSessionStored
    /\ event.kind = "load"
    /\ error = ""

====
